---- MODULE Spec2Model ----
(***************************************************************************)
(* Model of the robo.js build step: buildAction (cli/commands/build) and   *)
(* the manifest generator (cli/utils/manifest): scanDir, generateEntries,  *)
(* readPluginManifest, mergeEvents, generateManifest, loadManifest.        *)
(*                                                                         *)
(* JavaScript objects keep the insertion order of their keys and           *)
(* JSON.stringify writes them in that order, so an object is modelled as   *)
(* a sequence of [k, v] pairs ("ordered object"), never as a function.     *)
(***************************************************************************)
EXTENDS Integers, Sequences, FiniteSets, TLC

(***************************************************************************)
(* Bounds of the model.                                                    *)
(***************************************************************************)
\* longest key path of a scanned file (directory depth below <build>/<type>)
MaxDepth == 3
\* most files in the scanned tree of one entry type
MaxFiles == 3
\* most plugins listed in config.plugins
MaxPlugins == 2
\* most calls of loadManifest from outside generateManifest
MaxLoads == 2

\* the names of the model in their localeCompare order
KeyOrder == <<"a", "b", "message", "other", "user">>
\* file and directory names
Keys == {"a", "b"}
\* the two context types of the manifest, and a directory that is neither
ContextTypes == {"message", "user"}
ContextDirs == ContextTypes \cup {"other"}
\* "main" is <build>/<type>; the others are .robo/build/modules/<m>/<type>
RootOrder == <<"main", "m1", "m2.dev">>
Roots == {RootOrder[i] : i \in 1..Len(RootOrder)}
Modules == Roots \ {"main"}
\* the modes a project runs in
Modes == {"dev", "production"}
PluginNames == {"p1", "p2"}

ScanOrder == <<"api", "commands", "context", "events", "middleware">>
Types == {ScanOrder[i] : i \in 1..Len(ScanOrder)}

(***************************************************************************)
(* Ordered objects.                                                        *)
(***************************************************************************)
Has(o, k) == \E i \in 1..Len(o) : o[i].k = k

Get(o, k) == o[CHOOSE i \in 1..Len(o) : o[i].k = k].v

\* o[k] = v: an existing key keeps its place, a new key goes last
Put(o, k, v) ==
    IF Has(o, k)
    THEN [i \in 1..Len(o) |-> IF o[i].k = k THEN [k |-> k, v |-> v] ELSE o[i]]
    ELSE Append(o, [k |-> k, v |-> v])

ObjKeys(o) == {o[i].k : i \in 1..Len(o)}

RECURSIVE Spread(_, _)
\* { ...a, ...b }
Spread(a, b) ==
    IF b = <<>> THEN a
    ELSE Spread(Put(a, Head(b).k, Head(b).v), Tail(b))

RECURSIVE SortFrom(_, _)
SortFrom(o, i) ==
    IF i > Len(KeyOrder) THEN <<>>
    ELSE (IF Has(o, KeyOrder[i])
          THEN <<[k |-> KeyOrder[i], v |-> Get(o, KeyOrder[i])]>>
          ELSE <<>>) \o SortFrom(o, i + 1)

\* Object.fromEntries(Object.entries(o).sort(([a], [b]) => a.localeCompare(b)))
SortByKey(o) == SortFrom(o, 1)

(***************************************************************************)
(* Files and entries.                                                      *)
(***************************************************************************)
NoFile == [type |-> "none", root |-> "none", keys |-> <<>>]

File(t, r, ks) == [type |-> t, root |-> r, keys |-> ks]

\* the entry the predicate builds for a file: __path names the file,
\* __module is the module directory ("" stands for undefined)
FileEntry(f) ==
    [path |-> f,
     module |-> IF f.root = "main" THEN "" ELSE f.root,
     hasSubs |-> FALSE,
     subs |-> <<>>]

\* { subcommands: {} } and { subroutes: {} }
Placeholder == [path |-> NoFile, module |-> "", hasSubs |-> TRUE, subs |-> <<>>]

\* parent?.__path
HasPath(node) == node.path # NoFile

Ok(e) == [out |-> "ok", entries |-> e]
Exit(e) == [out |-> "exit", entries |-> e]
Throw(e) == [out |-> "throw", entries |-> e]

(***************************************************************************)
(* The predicate of generateEntries, after its await import(): the code    *)
(* from the read of entries[fileKeys[0]] to the end runs without awaiting, *)
(* so it is one step on entries.  out is "ok", "exit" (process.exit(1)) or *)
(* "throw" (a TypeError rejects the predicate's promise).                  *)
(***************************************************************************)
\* a faulty variant: the handler list is replaced by the new handler
EventsPushReplacing(existing, entry) == <<entry>>

\* existingEntry.push(entry)
EventsPush(existing, entry) == Append(existing, entry)

EventsPredicate(entries, f) ==
    LET k0 == f.keys[1]
        existing == IF Has(entries, k0) THEN Get(entries, k0) ELSE <<>>
    IN  Ok(Put(entries, k0, EventsPush(existing, FileEntry(f))))

\* a faulty variant: the record of the context type is made anew for every file
ContextPredicateAnew(entries, f) ==
    IF Len(f.keys) = 2
    THEN Ok(Put(entries, f.keys[1], Put(<<>>, f.keys[2], FileEntry(f))))
    ELSE Ok(entries)

ContextPredicate(entries, f) ==
    IF Len(f.keys) = 2
    THEN LET contextType == f.keys[1]
             entriesRecord == IF Has(entries, contextType)
                              THEN Get(entries, contextType) ELSE <<>>
         IN  Ok(Put(entries, contextType, Put(entriesRecord, f.keys[2], FileEntry(f))))
    ELSE Ok(entries)

\* a faulty variant: the assignment drops the parent's other subcommands
SetSubcommandAlone(parent, key, entry) ==
    [parent EXCEPT !.subs = <<[k |-> key, v |-> entry]>>]

\* parentCommand.subcommands[key] = entry
SetSubcommand(parent, key, entry) == [parent EXCEPT !.subs = Put(@, key, entry)]

CommandsPredicate(entries, f) ==
    LET ks == f.keys
        entry == FileEntry(f)
        found == Has(entries, ks[1])
        parentCommand == IF found THEN Get(entries, ks[1]) ELSE Placeholder
    IN  CASE Len(ks) = 3 ->
               IF found /\ HasPath(parentCommand) THEN Exit(entries)
               ELSE LET foundSub == Has(parentCommand.subs, ks[2])
                        parentSubcommand == IF foundSub
                                            THEN Get(parentCommand.subs, ks[2])
                                            ELSE Placeholder
                    IN  IF foundSub /\ HasPath(parentSubcommand) THEN Exit(entries)
                        ELSE Ok(Put(entries, ks[1],
                                    SetSubcommand(parentCommand, ks[2],
                                        SetSubcommand(parentSubcommand, ks[3], entry))))
          [] Len(ks) = 2 ->
               IF found /\ HasPath(parentCommand) THEN Exit(entries)
               ELSE Ok(Put(entries, ks[1], SetSubcommand(parentCommand, ks[2], entry)))
          [] Len(ks) = 1 -> Ok(Put(entries, ks[1], entry))
          [] OTHER -> Ok(entries)

\* entries[fileKeys.join('/')] = entry; the key path stands for the joined key
MiddlewarePredicate(entries, f) == Ok(Put(entries, f.keys, FileEntry(f)))

RECURSIVE ApiDescend(_, _, _)
\* The loop of the api branch and its final assignment, from `parent` down
\* the remaining keys ks.  parent.subroutes[key] on a parent without
\* subroutes is a TypeError.  [ok, node]: node is the updated parent.
ApiDescend(parent, ks, entry) ==
    IF ~parent.hasSubs THEN [ok |-> FALSE, node |-> parent]
    ELSE IF Len(ks) = 1
    THEN [ok |-> TRUE, node |-> [parent EXCEPT !.subs = Put(@, ks[1], entry)]]
    ELSE LET key == ks[1]
             child == IF Has(parent.subs, key) THEN Get(parent.subs, key)
                      ELSE Placeholder
             r == ApiDescend(child, Tail(ks), entry)
         IN  IF r.ok
             THEN [ok |-> TRUE, node |-> [parent EXCEPT !.subs = Put(@, key, r.node)]]
             ELSE [ok |-> FALSE, node |-> parent]

ApiPredicate(entries, f) ==
    LET ks == f.keys
        entry == FileEntry(f)
    IN  IF Len(ks) > 1
        THEN LET parent0 == IF Has(entries, ks[1]) THEN Get(entries, ks[1])
                            ELSE Placeholder
                 \* if (!parent.subroutes) parent.subroutes = {}
                 parent == [parent0 EXCEPT !.hasSubs = TRUE]
                 r == ApiDescend(parent, Tail(ks), entry)
             IN  IF r.ok THEN Ok(Put(entries, ks[1], r.node)) ELSE Throw(entries)
        ELSE Ok(Put(entries, ks[1], entry))

Predicate(entries, f) ==
    CASE f.type = "api" -> ApiPredicate(entries, f)
      [] f.type = "commands" -> CommandsPredicate(entries, f)
      [] f.type = "context" -> ContextPredicate(entries, f)
      [] f.type = "events" -> EventsPredicate(entries, f)
      [] f.type = "middleware" -> MiddlewarePredicate(entries, f)


(***************************************************************************)
(* Manifests.  permissions is a list of permission strings or a number     *)
(* (a bitfield); kind says which.                                          *)
(***************************************************************************)
PermList(l) == [kind |-> "list", list |-> l]
PermNumber == [kind |-> "number", list |-> <<>>]
PermNone == [kind |-> "none", list |-> <<>>]

(***************************************************************************)
(* The config.  plugins holds the plugin names in config order and         *)
(* pluginForms, index by index, what config.plugins holds for each: the     *)
(* bare name, or the array [name, options].                                 *)
(***************************************************************************)
Invite(auto, perms, scopes) ==
    [autoPermissions |-> auto, permissions |-> perms, scopes |-> scopes]

\* 'name'
BareName == [form |-> "name", options |-> [kind |-> "none", fields |-> <<>>]]
\* [name, options]
WithOptions(options) == [form |-> "array", options |-> options]

\* the values plugin options may take: an object of keys and values, null,
\* or a string
OptObject(fields) == [kind |-> "object", fields |-> fields]
OptNull == [kind |-> "null", fields |-> <<>>]
OptString(text) == [kind |-> "string", fields |-> <<[k |-> "text", v |-> text]>>]

Config(plugins, intents, invite) ==
    [plugins |-> plugins,
     pluginForms |-> [i \in 1..Len(plugins) |-> BareName],
     intents |-> intents,
     invite |-> invite]

NoInvite == Invite(TRUE, PermNone, <<>>)

\* typeof pluginOptions === 'object', which holds of null too
TypeofObject(options) == options.kind \in {"object", "null"}

\* redactedObj: every own key of pluginOptions with the value '[REDACTED]';
\* for ... in over null visits nothing
RedactedObj(options) ==
    OptObject([i \in 1..Len(options.fields) |->
                  [k |-> options.fields[i].k, v |-> "[REDACTED]"]])

\* the callback of config.plugins.map
RedactPlugin(plugin) ==
    IF plugin.form = "array" /\ TypeofObject(plugin.options)
    THEN WithOptions(RedactedObj(plugin.options))
    ELSE plugin

redactPluginOptions(config) ==
    [config EXCEPT !.pluginForms = [i \in 1..Len(@) |-> RedactPlugin(@[i])]]

\* __robo of BASE_MANIFEST: config is null
NoRobo == [hasConfig |-> FALSE, config |-> Config(<<>>, <<>>, NoInvite)]

BASE_MANIFEST ==
    [robo |-> NoRobo,
     api |-> <<>>,
     commands |-> <<>>,
     context |-> [message |-> <<>>, user |-> <<>>],
     events |-> <<>>,
     permissions |-> PermList(<<>>),
     middleware |-> <<>>,
     scopes |-> <<>>]

\* a faulty variant: the new handlers replace the ones merged so far
ConcatEventsReplacing(baseEventArray, newEventArray) == newEventArray

\* [...baseEventArray, ...newEventArray]
ConcatEvents(baseEventArray, newEventArray) == baseEventArray \o newEventArray

RECURSIVE mergeEvents(_, _)
mergeEvents(baseEvents, newEvents) ==
    IF newEvents = <<>> THEN baseEvents
    ELSE LET eventName == Head(newEvents).k
             baseEventArray == IF Has(baseEvents, eventName)
                               THEN Get(baseEvents, eventName) ELSE <<>>
         IN  mergeEvents(Put(baseEvents, eventName,
                             ConcatEvents(baseEventArray, Head(newEvents).v)),
                         Tail(newEvents))

\* the permissions each gateway intent stands for
INTENT_PERMISSIONS(intent) ==
    CASE intent = "Guilds" -> <<"ViewChannel">>
      [] intent = "GuildBans" -> <<"BanMembers", "ViewAuditLog">>
      [] intent = "GuildIntegrations" -> <<"ManageGuild", "ViewAuditLog">>
      [] intent = "GuildMessages" -> <<"ReadMessageHistory", "SendMessages">>
      [] OTHER -> <<>>

\* localeCompare order of the permission and scope names of the model
PermissionOrder ==
    <<"Administrator", "BanMembers", "ManageGuild", "ReadMessageHistory",
      "SendMessages", "ViewAuditLog", "ViewChannel">>
ScopeOrder == <<"applications.commands", "bot", "guilds", "identify">>

Range(s) == {s[i] : i \in 1..Len(s)}

RECURSIVE Flatten(_)
Flatten(ss) == IF ss = <<>> THEN <<>> ELSE Head(ss) \o Flatten(Tail(ss))

RECURSIVE Keep(_, _)
Keep(order, S) ==
    IF order = <<>> THEN <<>>
    ELSE (IF Head(order) \in S THEN <<Head(order)>> ELSE <<>>) \o Keep(Tail(order), S)

\* list.sort(localeCompare), then [...new Set(list)]
SortUnique(list, order) == Keep(order, Range(list))

generatePermissions(cfg) ==
    LET fromIntents ==
            IF cfg.invite.autoPermissions
            THEN Flatten([i \in 1..Len(cfg.intents) |-> INTENT_PERMISSIONS(cfg.intents[i])])
            ELSE <<>>
        configPermissions ==
            IF cfg.invite.permissions.kind = "list" THEN cfg.invite.permissions.list
            ELSE <<>>
    IN  PermList(SortUnique(fromIntents \o configPermissions, PermissionOrder))

generateScopes(cfg, commands) ==
    SortUnique(<<"bot">>
               \o (IF commands # <<>> THEN <<"applications.commands">> ELSE <<>>)
               \o cfg.invite.scopes,
               ScopeOrder)

\* one turn of the loop of readPluginManifest, for an installed plugin
MergePluginApi(pluginsManifest, manifest) == Spread(pluginsManifest.api, manifest.api)
MergePluginCommands(pluginsManifest, manifest) ==
    Spread(pluginsManifest.commands, manifest.commands)
MergePluginContext(pluginsManifest, manifest) ==
    [message |-> Spread(pluginsManifest.context.message, manifest.context.message),
     user |-> Spread(pluginsManifest.context.user, manifest.context.user)]

MergePlugin(pluginsManifest, manifest) ==
    LET validPermissions == manifest.permissions.kind = "list"
    IN  [robo |-> pluginsManifest.robo,
         api |-> MergePluginApi(pluginsManifest, manifest),
         commands |-> MergePluginCommands(pluginsManifest, manifest),
         context |-> MergePluginContext(pluginsManifest, manifest),
         events |-> mergeEvents(pluginsManifest.events, manifest.events),
         middleware |-> pluginsManifest.middleware \o manifest.middleware,
         permissions |-> PermList(pluginsManifest.permissions.list
                                  \o (IF validPermissions
                                      THEN manifest.permissions.list ELSE <<>>)),
         scopes |-> pluginsManifest.scopes \o manifest.scopes]

\* context.message of generateEntries('context'): undefined spreads nothing
ContextOf(context, contextType) ==
    IF Has(context, contextType) THEN Get(context, contextType) ELSE <<>>

\* a faulty variant: the plugins' entries override the local ones
PluginOverLocal(pluginEntries, localEntries) == Spread(localEntries, pluginEntries)

\* { ...pluginsManifest.commands, ...commands } and its like
LocalOverPlugin(pluginEntries, localEntries) == Spread(pluginEntries, localEntries)

\* the newManifest of generateManifest, from the object literal to the sorts
BuildManifest(pluginsManifest, s, cfg) ==
    LET commands == LocalOverPlugin(pluginsManifest.commands, s.commands)
    IN  [robo |-> [hasConfig |-> TRUE, config |-> redactPluginOptions(cfg)],
         api |-> SortByKey(LocalOverPlugin(pluginsManifest.api, s.api)),
         commands |-> SortByKey(commands),
         context |->
             [message |-> LocalOverPlugin(pluginsManifest.context.message,
                                          ContextOf(s.context, "message")),
              user |-> LocalOverPlugin(pluginsManifest.context.user,
                                       ContextOf(s.context, "user"))],
         events |-> SortByKey(mergeEvents(pluginsManifest.events, s.events)),
         middleware |-> pluginsManifest.middleware \o s.middleware,
         \* newManifest.permissions = ...; newManifest.scopes = ...
         permissions |-> generatePermissions(cfg),
         scopes |-> generateScopes(cfg, commands)]

(***************************************************************************)
(* .robo/manifest.json                                                     *)
(***************************************************************************)
FileMissing == [state |-> "missing", json |-> BASE_MANIFEST]
FileBlank == [state |-> "blank", json |-> BASE_MANIFEST]

\* JSON.stringify(newManifest, jsonReplacer, 2): the manifests of the model
\* hold no undefined and no bigint value, which are what JSON drops or
\* rewrites, so the text is the manifest's fields in their key order
JsonStringify(m) == [state |-> "json", json |-> m]

\* a file whose content JSON.parse rejects
FileCorrupt == [state |-> "corrupt", json |-> BASE_MANIFEST]

\* loadManifest() without name and basePath
loadManifest(file) ==
    IF file.state = "json" THEN file.json ELSE BASE_MANIFEST

\* the values of the global _manifest: null, undefined, or a manifest
NotLoaded(kind) == [kind |-> kind, manifest |-> BASE_MANIFEST]
Loaded(manifest) == [kind |-> "manifest", manifest |-> manifest]

\* { ...pluginInfo, ...eventConfig } and the two assignments to a command
InjectPluginInfo(entry, name, basePath) ==
    entry @@ [auto |-> TRUE, plugin |-> [name |-> name, path |-> basePath]]

\* loadManifest(name, basePath) on the file at
\* <basePath || '.'>/.robo/manifest.json: what it returns or that it throws,
\* and what its finally block leaves in _manifest
LoadManifest(name, basePath, file) ==
    CASE file.state = "corrupt" ->
            [out |-> "throw", manifest |-> BASE_MANIFEST, global |-> NotLoaded("undefined")]
      [] file.state \in {"missing", "blank"} ->
            [out |-> "return", manifest |-> BASE_MANIFEST, global |-> Loaded(BASE_MANIFEST)]
      [] file.state = "json" ->
            LET parsed == file.json
                manifest ==
                    IF name # "" /\ basePath # ""
                    THEN [parsed EXCEPT
                            !.commands = [i \in 1..Len(@) |->
                                [k |-> @[i].k,
                                 v |-> InjectPluginInfo(@[i].v, name, basePath)]],
                            !.events = [i \in 1..Len(@) |->
                                [k |-> @[i].k,
                                 v |-> [j \in 1..Len(@[i].v) |->
                                          InjectPluginInfo(@[i].v[j], name, basePath)]]]]
                    ELSE parsed
            IN  [out |-> "return", manifest |-> manifest, global |-> Loaded(manifest)]

(***************************************************************************)
(* findCommandDifferences (cli/utils/commands): its source is not among   *)
(* the files modelled here; it is taken to compare the two                 *)
(* command tables by key and by value.                                     *)
(***************************************************************************)
findCommandDifferences(oldCommands, newCommands, differenceType) ==
    CASE differenceType = "added" -> ObjKeys(newCommands) \ ObjKeys(oldCommands)
      [] differenceType = "removed" -> ObjKeys(oldCommands) \ ObjKeys(newCommands)
      [] differenceType = "changed" ->
            {k \in ObjKeys(oldCommands) \cap ObjKeys(newCommands) :
                Get(oldCommands, k) # Get(newCommands, k)}

\* a faulty variant: removed commands alone do not count
ShouldRegisterUnlessRemoved(force, addedCommands, removedCommands, changedCommands) ==
    force \/ addedCommands # {} \/ changedCommands # {}

\* the condition guarding registerCommands
ShouldRegister(force, addedCommands, removedCommands, changedCommands) ==
    force \/ addedCommands # {} \/ removedCommands # {} \/ changedCommands # {}


(***************************************************************************)
(* Inputs: the build directory, the config, the installed plugins with     *)
(* their manifests, the command line options and the manifest file left    *)
(* by the previous build.                                                  *)
(***************************************************************************)
RECURSIVE PathsOfLen(_)
\* key paths of n names; the names between the first and the last are "a"
PathsOfLen(n) ==
    IF n = 1 THEN {<<k>> : k \in Keys}
    ELSE IF n = 2 THEN {<<k, l>> : k \in Keys, l \in Keys}
    ELSE {<<p[1]>> \o [i \in 1..(n - 2) |-> "a"] \o <<p[2]>> : p \in PathsOfLen(2)}

Paths == UNION {PathsOfLen(n) : n \in 1..MaxDepth}

ContextPaths ==
    {<<c, k>> : c \in ContextDirs, k \in Keys}
        \cup {<<"message">>, <<"message", "a", "b">>}

\* the files a build directory may hold for one entry type; the one module
\* directory holds files of at most two names
FilesOf(t) ==
    IF t = "context"
    THEN {File(t, r, ks) : r \in {"main", "m1"}, ks \in ContextPaths}
    ELSE {File(t, "main", ks) : ks \in Paths}
            \cup {File(t, "m1", ks) : ks \in PathsOfLen(1) \cup PathsOfLen(2)}

RECURSIVE SubsetsUpTo(_, _)
SubsetsUpTo(S, n) ==
    IF n = 0 THEN {{}}
    ELSE LET smaller == SubsetsUpTo(S, n - 1)
         IN  smaller \cup {T \cup {x} : T \in smaller, x \in S}

TreesOf(t) == SubsetsUpTo(FilesOf(t), MaxFiles)

\* one top-level file per name of K in every entry type
FlatTree(K) ==
    {File(t, "main", <<k>>) : t \in Types \ {"context"}, k \in K}
        \cup {File("context", "main", <<c, k>>) : c \in ContextTypes, k \in K}

RECURSIVE SeqsUpTo(_, _)
SeqsUpTo(S, n) ==
    IF n = 0 THEN {<<>>}
    ELSE LET shorter == SeqsUpTo(S, n - 1)
         IN  shorter \cup {Append(q, x) : q \in shorter, x \in S}

PluginLists == SeqsUpTo(PluginNames, MaxPlugins)

\* an entry of a plugin's own manifest, as Compiler.useManifest returns it
PluginEntry(p, t, ks) ==
    [path |-> File(t, p, ks), module |-> "", hasSubs |-> FALSE, subs |-> <<>>]

RECURSIVE ObjectOf(_, _, _, _)
\* the ordered object with the keys of K, in KeyOrder, from index i on
ObjectOf(p, t, K, i) ==
    IF i > Len(KeyOrder) THEN <<>>
    ELSE (IF KeyOrder[i] \in K
          THEN <<[k |-> KeyOrder[i],
                  v |-> IF t = "events"
                        THEN <<PluginEntry(p, t, <<KeyOrder[i]>>)>>
                        ELSE PluginEntry(p, t, <<KeyOrder[i]>>)]>>
          ELSE <<>>) \o ObjectOf(p, t, K, i + 1)

\* the manifest of plugin p: entries named by K in every section
PluginManifest(p, K, perms, scopes) ==
    [robo |-> NoRobo,
     api |-> ObjectOf(p, "api", K, 1),
     commands |-> ObjectOf(p, "commands", K, 1),
     context |-> [message |-> ObjectOf(p, "message", K, 1),
                  user |-> ObjectOf(p, "user", K, 1)],
     events |-> ObjectOf(p, "events", K, 1),
     middleware |-> IF K = {} THEN <<>> ELSE <<PluginEntry(p, "middleware", <<"a">>)>>,
     permissions |-> perms,
     scopes |-> scopes]

NotInstalled == [installed |-> FALSE, manifest |-> BASE_MANIFEST]
Installed(m) == [installed |-> TRUE, manifest |-> m]

PluginPermissionChoices ==
    {<<PermNone, <<>>>>, <<PermNumber, <<"guilds">>>>,
     <<PermList(<<"ManageGuild">>), <<"guilds", "identify">>>>}

PackagesOf(p) ==
    {NotInstalled}
        \cup {Installed(PluginManifest(p, K, c[1], c[2])) :
                K \in SUBSET Keys, c \in PluginPermissionChoices}

Options(force, watch) == [force |-> force, watch |-> watch]

\* mode is Mode.get(); missing holds the entry types whose <build>/<type>
\* directory does not exist
Scenario(tree, cfg, packages, options, file) ==
    [tree |-> tree, config |-> cfg, packages |-> packages,
     options |-> options, file |-> file, mode |-> "production", missing |-> {}]

NoPackages == [p \in PluginNames |-> NotInstalled]

\* every tree of one entry type, nothing else
TreeScenarios ==
    {Scenario(tree, Config(<<>>, <<>>, NoInvite), NoPackages,
              Options(FALSE, FALSE), FileMissing) :
        tree \in UNION {TreesOf(t) : t \in Types}}

\* every list of plugins with every choice of their manifests
PluginScenarios ==
    {Scenario(FlatTree(K), Config(plugins, <<>>, NoInvite), packages,
              Options(FALSE, FALSE), FileMissing) :
        K \in {{}, {"a"}},
        plugins \in PluginLists,
        packages \in {pk \in [PluginNames -> UNION {PackagesOf(p) : p \in PluginNames}] :
                        \A p \in PluginNames : pk[p] \in PackagesOf(p)}}

ConfigScenarios ==
    {Scenario(FlatTree(K), Config(<<>>, intents, Invite(auto, perms, scopes)),
              NoPackages, Options(FALSE, FALSE), FileMissing) :
        K \in {{}, {"b"}},
        intents \in {<<>>, <<"Guilds", "GuildBans">>, <<"GuildBans", "GuildIntegrations">>},
        auto \in BOOLEAN,
        perms \in {PermNone, PermNumber, PermList(<<"ViewChannel", "Administrator">>)},
        scopes \in {<<>>, <<"identify", "bot">>}}

(***************************************************************************)
(* scanDir.  readdir and the parallel fs.stat calls only decide the order  *)
(* in which the predicate calls of one directory are started; each         *)
(* predicate then awaits its import, and the imports resolve in any        *)
(* order.  A file's predicate can start once scanDir has reached its       *)
(* directory: the files of every directory above it are done (files are    *)
(* awaited before the directories are recursed into), and for a module     *)
(* directory the whole main directory is done (directories are awaited     *)
(* before the modules).                                                    *)
(***************************************************************************)
Dir(ks) == SubSeq(ks, 1, Len(ks) - 1)

\* module.split('.')
ModuleParts(module) ==
    CASE module = "m2.dev" -> <<"m2", "dev">>
      [] OTHER -> <<module>>

(***************************************************************************)
(* Mode.is (core/mode): its source is not among the files modelled here;   *)
(* it is taken to compare its argument with the mode Mode.get() returns.   *)
(***************************************************************************)
ModeIs(active, mode) == mode = active

\* a faulty variant: no module is skipped
ModuleSkippedNever(module, active) == FALSE

\* if (mode && !Mode.is(mode)) return
ModuleSkipped(module, active) ==
    LET moduleParts == ModuleParts(module)
        mode == IF Len(moduleParts) > 1 THEN moduleParts[Len(moduleParts)] ELSE active
    IN  mode # "" /\ ~ModeIs(active, mode)

\* scanDir hands file f to the predicate
IsScanned(f, active) == f.root = "main" \/ ~ModuleSkipped(f.root, active)

\* the files of the tree that scanDir hands to the predicate
ScannedFiles(tree, active) == {f \in tree : IsScanned(f, active)}

\* a faulty variant: the error of fs.readdir is thrown whatever its code
ReaddirErrorIgnoredNever(code) == FALSE

\* the catch around fs.readdir(directoryPath)
ReaddirErrorIgnored(code) == code = "ENOENT"

IsPrefix(p, q) == Len(p) <= Len(q) /\ SubSeq(q, 1, Len(p)) = p

\* g is a file of a directory strictly above the directory of f
InDirAbove(g, f) ==
    /\ g.root = f.root
    /\ Len(g.keys) < Len(f.keys)
    /\ IsPrefix(Dir(g.keys), Dir(f.keys))

\* the files whose predicates scanDir awaits before it starts the one of f
AwaitedBefore(tree, f) ==
    {g \in tree : /\ g.type = f.type
                  /\ \/ InDirAbove(g, f)
                     \/ (f.root # "main" /\ g.root = "main")}

\* Object.values(entries).flat() for middleware, entries as they are otherwise
ScanResult(t, entries) ==
    IF t = "middleware" THEN [i \in 1..Len(entries) |-> entries[i].v] ELSE entries

(***************************************************************************)
(* The scan with the predicates completing one after the other in a fixed  *)
(* order that scanDir allows: main before modules, shorter key paths       *)
(* first, then by name.                                                    *)
(***************************************************************************)
Index(order, x) == CHOOSE i \in 1..Len(order) : order[i] = x

RECURSIVE PathCode(_)
PathCode(ks) ==
    IF ks = <<>> THEN 0
    ELSE PathCode(Dir(ks)) * 8 + Index(KeyOrder, ks[Len(ks)])

FileCode(f) == (Index(RootOrder, f.root) * 10 + Len(f.keys)) * 10000 + PathCode(f.keys)

RECURSIVE InOrder(_)
InOrder(S) ==
    IF S = {} THEN <<>>
    ELSE LET f == CHOOSE x \in S : \A y \in S : FileCode(x) <= FileCode(y)
         IN  <<f>> \o InOrder(S \ {f})

RECURSIVE RunPredicates(_, _)
RunPredicates(entries, fs) ==
    IF fs = <<>> THEN Ok(entries)
    ELSE LET r == Predicate(entries, Head(fs))
         IN  IF r.out = "ok" THEN RunPredicates(r.entries, Tail(fs)) ELSE r

SequentialScan(tree, t) ==
    ScanResult(t, RunPredicates(<<>>, InOrder({f \in tree : f.type = t})).entries)

SequentialScans(tree) ==
    [api |-> SequentialScan(tree, "api"),
     commands |-> SequentialScan(tree, "commands"),
     context |-> SequentialScan(tree, "context"),
     events |-> SequentialScan(tree, "events"),
     middleware |-> SequentialScan(tree, "middleware")]

RECURSIVE readPluginManifest(_, _)
\* the loop of readPluginManifest over plugins, last plugin last
readPluginManifest(plugins, packages) ==
    IF plugins = <<>> THEN BASE_MANIFEST
    ELSE LET before == readPluginManifest(Dir(plugins), packages)
             package == packages[plugins[Len(plugins)]]
         IN  IF package.installed THEN MergePlugin(before, package.manifest)
             ELSE before

\* the manifest of a build whose predicates complete in the fixed order
SequentialManifest(tree, cfg, packages) ==
    BuildManifest(readPluginManifest(cfg.plugins, packages), SequentialScans(tree), cfg)

CommandFiles == {File("commands", "main", <<"a">>), File("commands", "main", <<"b">>),
                 File("commands", "m1", <<"a">>)}

\* a few command files, a command next to its subcommand, a route next to
\* its subroute
BuildTrees ==
    (SUBSET CommandFiles)
        \cup {{File("commands", "main", <<"a">>), File("commands", "main", <<"a", "b">>)},
              {File("api", "main", <<"a", "a">>), File("api", "main", <<"a", "a", "a">>)}}

\* builds over what an earlier build of a few command files wrote
BuildScenarios ==
    {Scenario(tree, Config(<<>>, <<>>, NoInvite), NoPackages, Options(force, watch), file) :
        tree \in BuildTrees,
        force \in BOOLEAN,
        watch \in BOOLEAN,
        file \in {FileMissing, FileBlank}
                    \cup {JsonStringify(SequentialManifest(old, Config(<<>>, <<>>, NoInvite),
                                                           NoPackages)) :
                            old \in SUBSET CommandFiles}}

\* the option values of the model
Secrets == {"key1", "key2"}

\* what config.plugins may hold for one plugin
PluginForms ==
    {BareName, WithOptions(OptNull)}
        \cup {WithOptions(OptString(s)) : s \in Secrets}
        \cup {WithOptions(OptObject(<<[k |-> "a", v |-> s]>>)) : s \in Secrets}
        \cup {WithOptions(OptObject(<<[k |-> "b", v |-> s], [k |-> "a", v |-> t]>>)) :
                s \in Secrets, t \in Secrets}

\* plugins p1, p2, p1, ... listed with options, none of them installed
OptionScenarios ==
    {Scenario({}, [Config([i \in 1..Len(forms) |-> IF i % 2 = 1 THEN "p1" ELSE "p2"],
                          <<>>, NoInvite) EXCEPT !.pluginForms = forms],
              NoPackages, Options(FALSE, FALSE), FileMissing) :
        forms \in SeqsUpTo(PluginForms, MaxPlugins) \ {<<>>}}

\* the files of the module scenarios: one in the main directory and two in
\* each of the two module directories
ModuleFilesOf(t) ==
    IF t = "context"
    THEN {File(t, "main", <<"message", "a">>),
          File(t, "m1", <<"message", "a">>), File(t, "m1", <<"user", "a">>),
          File(t, "m2.dev", <<"message", "a">>), File(t, "m2.dev", <<"user", "b">>)}
    ELSE {File(t, "main", <<"a">>),
          File(t, "m1", <<"a">>), File(t, "m1", <<"a", "b">>),
          File(t, "m2.dev", <<"a">>), File(t, "m2.dev", <<"b">>)}

\* trees over the module directories in either mode, with the main
\* directory of the type present or absent
ModuleScenarios ==
    {[Scenario(tree, Config(<<>>, <<>>, NoInvite), NoPackages,
               Options(FALSE, FALSE), FileMissing)
         EXCEPT !.mode = mode, !.missing = missing] :
        tree \in UNION {SubsetsUpTo(ModuleFilesOf(t), MaxFiles) : t \in Types},
        mode \in Modes,
        missing \in {{}} \cup {{t} : t \in Types}}

\* the module scenarios a file system can hold: a file of a main directory
\* means that directory exists, and a directory is only left out where a
\* module has files of the type
PlacedModuleScenarios ==
    {s \in ModuleScenarios :
        /\ \A f \in s.tree : f.root = "main" => f.type \notin s.missing
        /\ \A t \in s.missing : \E f \in s.tree : f.type = t}


(***************************************************************************)
(* State.                                                                  *)
(***************************************************************************)
VARIABLES
    input,            \* the scenario: tree, config, packages, options, file
    manifestFile,     \* the content of .robo/manifest.json
    pc,               \* where buildAction stands
    compiled,         \* compile() has run
    oldManifest,      \* buildAction's oldManifest
    pluginsManifest,  \* readPluginManifest's pluginsManifest
    pluginIdx,        \* the next plugin of config.plugins to read
    scanIdx,          \* the entry type being scanned, an index of ScanOrder
    status,           \* per file: "wait", "importing" or "done"
    entries,          \* generateEntries' entries of the current scan
    scanned,          \* generateManifest's api, commands, context, events, middleware
    newManifest,      \* generateManifest's newManifest
    writes,           \* calls of fs.writeFile so far
    differences,      \* buildAction's addedCommands, removedCommands, changedCommands
    registered,       \* calls of registerCommands so far
    _manifest,        \* the global manifest reference of the manifest module
    lastReturned,     \* what the latest call of loadManifest that returned has returned
    loads             \* calls of loadManifest so far

vars == <<input, manifestFile, pc, compiled, oldManifest, pluginsManifest, pluginIdx,
          scanIdx, status, entries, scanned, newManifest, writes, differences,
          registered, _manifest, lastReturned, loads>>

loaderVars == <<_manifest, lastReturned, loads>>

NoScans == [api |-> <<>>, commands |-> <<>>, context |-> <<>>, events |-> <<>>,
            middleware |-> <<>>]
NoDifferences == [added |-> {}, removed |-> {}, changed |-> {}]

Init ==
    /\ \/ input \in TreeScenarios
       \/ input \in PluginScenarios
       \/ input \in ConfigScenarios
       \/ input \in BuildScenarios
       \/ input \in OptionScenarios
       \/ input \in PlacedModuleScenarios
    /\ manifestFile = input.file
    /\ pc = "start"
    /\ compiled = FALSE
    /\ oldManifest = BASE_MANIFEST
    /\ pluginsManifest = BASE_MANIFEST
    /\ pluginIdx = 1
    /\ scanIdx = 1
    /\ status = [f \in input.tree |-> "wait"]
    /\ entries = <<>>
    /\ scanned = NoScans
    /\ newManifest = BASE_MANIFEST
    /\ writes = 0
    /\ differences = NoDifferences
    /\ registered = 0
    /\ _manifest = NotLoaded("null")
    /\ lastReturned = NotLoaded("null")
    /\ loads = 0

(***************************************************************************)
(* buildAction, up to the call of generateManifest.                        *)
(***************************************************************************)
\* a faulty variant: --watch is not looked at
CheckWatchIgnored ==
    /\ pc = "start"
    /\ pc' = "compile"
    /\ UNCHANGED <<input, manifestFile, compiled, oldManifest, pluginsManifest,
                   pluginIdx, scanIdx, status, entries, scanned, newManifest, writes,
                   differences, registered>>
    /\ UNCHANGED loaderVars

\* if (options.watch) process.exit(1)
CheckWatch ==
    /\ pc = "start"
    /\ pc' = IF input.options.watch THEN "exited" ELSE "compile"
    /\ UNCHANGED <<input, manifestFile, compiled, oldManifest, pluginsManifest,
                   pluginIdx, scanIdx, status, entries, scanned, newManifest, writes,
                   differences, registered>>
    /\ UNCHANGED loaderVars

\* loadConfig, compile, generateDefaults, getProjectSize: the build
\* directory is input.tree from here on
Compile ==
    /\ pc = "compile"
    /\ compiled' = TRUE
    /\ pc' = "load"
    /\ UNCHANGED <<input, manifestFile, oldManifest, pluginsManifest, pluginIdx,
                   scanIdx, status, entries, scanned, newManifest, writes, differences,
                   registered>>
    /\ UNCHANGED loaderVars

\* const oldManifest = await loadManifest()
LoadOldManifest ==
    /\ pc = "load"
    /\ oldManifest' = loadManifest(manifestFile)
    /\ _manifest' = LoadManifest("", "", manifestFile).global
    /\ lastReturned' = Loaded(loadManifest(manifestFile))
    /\ loads' = loads + 1
    /\ pc' = "plugins"
    /\ UNCHANGED <<input, manifestFile, compiled, pluginsManifest, pluginIdx, scanIdx,
                   status, entries, scanned, newManifest, writes, differences,
                   registered>>

(***************************************************************************)
(* generateManifest.                                                       *)
(***************************************************************************)
\* a faulty variant: a plugin that is not installed ends the loop
ReadPluginStopping ==
    /\ pc = "plugins"
    /\ pluginIdx <= Len(input.config.plugins)
    /\ LET package == input.packages[input.config.plugins[pluginIdx]]
       IN  /\ pluginsManifest' = IF package.installed
                                  THEN MergePlugin(pluginsManifest, package.manifest)
                                  ELSE pluginsManifest
           /\ pluginIdx' = IF package.installed THEN pluginIdx + 1
                           ELSE Len(input.config.plugins) + 1
    /\ UNCHANGED <<input, manifestFile, pc, compiled, oldManifest, scanIdx, status,
                   entries, scanned, newManifest, writes, differences, registered>>
    /\ UNCHANGED loaderVars

\* one turn of the loop of readPluginManifest
ReadPlugin ==
    /\ pc = "plugins"
    /\ pluginIdx <= Len(input.config.plugins)
    /\ LET package == input.packages[input.config.plugins[pluginIdx]]
       IN  pluginsManifest' = IF package.installed
                              THEN MergePlugin(pluginsManifest, package.manifest)
                              ELSE pluginsManifest
    /\ pluginIdx' = pluginIdx + 1
    /\ UNCHANGED <<input, manifestFile, pc, compiled, oldManifest, scanIdx, status,
                   entries, scanned, newManifest, writes, differences, registered>>
    /\ UNCHANGED loaderVars

\* readPluginManifest returns; generateEntries('api') begins
PluginsRead ==
    /\ pc = "plugins"
    /\ pluginIdx > Len(input.config.plugins)
    /\ pc' = "scan"
    /\ UNCHANGED <<input, manifestFile, compiled, oldManifest, pluginsManifest,
                   pluginIdx, scanIdx, status, entries, scanned, newManifest, writes,
                   differences, registered>>
    /\ UNCHANGED loaderVars

ScanType == ScanOrder[scanIdx]

\* scanDir calls predicate(fileKeys, fullPath, moduleKeys), which runs up
\* to its await import(importPath)
PredicateStart(f) ==
    /\ pc = "scan"
    /\ f.type = ScanType
    /\ status[f] = "wait"
    /\ IsScanned(f, input.mode)
    /\ ScanType \in input.missing => ReaddirErrorIgnored("ENOENT")
    /\ \A g \in AwaitedBefore(input.tree, f) : status[g] = "done"
    /\ status' = [status EXCEPT ![f] = "importing"]
    /\ UNCHANGED <<input, manifestFile, pc, compiled, oldManifest, pluginsManifest,
                   pluginIdx, scanIdx, entries, scanned, newManifest, writes,
                   differences, registered>>
    /\ UNCHANGED loaderVars

\* the import resolves and the predicate runs to its end
PredicateComplete(f) ==
    /\ pc = "scan"
    /\ f.type = ScanType
    /\ status[f] = "importing"
    /\ LET r == Predicate(entries, f)
       IN  /\ entries' = r.entries
           /\ pc' = CASE r.out = "ok" -> "scan"
                      [] r.out = "exit" -> "exited"
                      [] r.out = "throw" -> "thrown"
    /\ status' = [status EXCEPT ![f] = "done"]
    /\ UNCHANGED <<input, manifestFile, compiled, oldManifest, pluginsManifest,
                   pluginIdx, scanIdx, scanned, newManifest, writes, differences,
                   registered>>
    /\ UNCHANGED loaderVars

\* scanDir's promises are all settled: generateEntries returns entries, or
\* {} from its catch when scanDir threw ENOENT
ScanDone ==
    /\ pc = "scan"
    /\ LET thrown == ScanType \in input.missing /\ ~ReaddirErrorIgnored("ENOENT")
       IN  /\ ~thrown =>
                \A f \in input.tree :
                    (f.type = ScanType /\ IsScanned(f, input.mode)) => status[f] = "done"
           /\ scanned' = [scanned EXCEPT ![ScanType] =
                              IF thrown THEN <<>> ELSE ScanResult(ScanType, entries)]
    /\ entries' = <<>>
    /\ IF scanIdx < Len(ScanOrder)
       THEN scanIdx' = scanIdx + 1 /\ pc' = "scan"
       ELSE scanIdx' = scanIdx /\ pc' = "assemble"
    /\ UNCHANGED <<input, manifestFile, compiled, oldManifest, pluginsManifest,
                   pluginIdx, status, newManifest, writes, differences, registered>>
    /\ UNCHANGED loaderVars

\* newManifest, its permissions and scopes, and the three sorts
Assemble ==
    /\ pc = "assemble"
    /\ newManifest' = BuildManifest(pluginsManifest, scanned, input.config)
    /\ pc' = "write"
    /\ UNCHANGED <<input, manifestFile, compiled, oldManifest, pluginsManifest,
                   pluginIdx, scanIdx, status, entries, scanned, writes, differences,
                   registered>>
    /\ UNCHANGED loaderVars

\* a faulty variant: the manifest is written as each scan returns
WriteManifestPerScan ==
    /\ pc = "scan"
    /\ scanIdx > 1
    /\ writes = 0
    /\ manifestFile' = JsonStringify(BuildManifest(pluginsManifest, scanned, input.config))
    /\ writes' = writes + 1
    /\ UNCHANGED <<input, pc, compiled, oldManifest, pluginsManifest, pluginIdx, scanIdx,
                   status, entries, scanned, newManifest, differences, registered>>
    /\ UNCHANGED loaderVars

\* fs.writeFile(path.join('.robo', 'manifest.json'), JSON.stringify(...))
WriteManifest ==
    /\ pc = "write"
    /\ manifestFile' = JsonStringify(newManifest)
    /\ writes' = writes + 1
    /\ pc' = "compare"
    /\ UNCHANGED <<input, compiled, oldManifest, pluginsManifest, pluginIdx, scanIdx,
                   status, entries, scanned, newManifest, differences, registered>>
    /\ UNCHANGED loaderVars

(***************************************************************************)
(* buildAction, after generateManifest.                                    *)
(***************************************************************************)
CompareAndRegister ==
    /\ pc = "compare"
    /\ LET oldCommands == oldManifest.commands
           newCommands == newManifest.commands
           addedCommands == findCommandDifferences(oldCommands, newCommands, "added")
           removedCommands == findCommandDifferences(oldCommands, newCommands, "removed")
           changedCommands == findCommandDifferences(oldCommands, newCommands, "changed")
       IN  /\ differences' = [added |-> addedCommands, removed |-> removedCommands,
                              changed |-> changedCommands]
           /\ registered' = IF ShouldRegister(input.options.force, addedCommands,
                                              removedCommands, changedCommands)
                            THEN registered + 1 ELSE registered
    /\ pc' = "done"
    /\ UNCHANGED <<input, manifestFile, compiled, oldManifest, pluginsManifest,
                   pluginIdx, scanIdx, status, entries, scanned, newManifest, writes>>
    /\ UNCHANGED loaderVars

Next ==
    \/ CheckWatch
    \/ Compile
    \/ LoadOldManifest
    \/ ReadPlugin
    \/ PluginsRead
    \/ \E f \in input.tree : PredicateStart(f)
    \/ \E f \in input.tree : PredicateComplete(f)
    \/ ScanDone
    \/ Assemble
    \/ WriteManifest
    \/ CompareAndRegister

Spec == Init /\ [][Next]_vars

(***************************************************************************)
(* The earlier manifest module, of commands and events only: its           *)
(* generateManifest with its own readPluginManifest, and loadManifest      *)
(* called by the module's users.  The local build directory holds          *)
(* top-level files of distinct names, whose entries do not depend on the   *)
(* order of the predicate calls, so each generateEntries is one step.      *)
(***************************************************************************)
\* what findPackagePath found for a plugin ("" when it found nothing) and
\* the .robo/manifest.json of that package
Package(packagePath, file) == [path |-> packagePath, file |-> file]

EarlierPackagesOf(p) ==
    {Package("", FileMissing), Package(p, FileMissing), Package(p, FileCorrupt),
     Package(p, JsonStringify(PluginManifest(p, {"a"}, PermList(<<>>), <<>>)))}

\* one turn of the loop of the earlier readPluginManifest
EarlierMergePlugin(merged, manifest) ==
    LET validPermissions == manifest.permissions.kind = "list"
    IN  [merged EXCEPT
            !.commands = Spread(@, manifest.commands),
            !.events = Spread(@, manifest.events),
            !.permissions = PermList(@.list \o (IF validPermissions
                                                 THEN manifest.permissions.list
                                                 ELSE <<>>)),
            !.scopes = @ \o manifest.scopes]

\* the newManifest of the earlier generateManifest
EarlierManifest(merged, commands, events, cfg) ==
    LET allCommands == LocalOverPlugin(merged.commands, commands)
    IN  [merged EXCEPT
            !.robo = [hasConfig |-> TRUE, config |-> redactPluginOptions(cfg)],
            !.commands = SortByKey(allCommands),
            !.events = SortByKey(mergeEvents(merged.events, events)),
            !.permissions = generatePermissions(cfg),
            !.scopes = generateScopes(cfg, allCommands)]

\* the project's command b and event a; the build before had command a too
EarlierTree == {File("commands", "main", <<"b">>), File("events", "main", <<"a">>)}

EarlierScenarios ==
    {Scenario(EarlierTree, Config(plugins, <<>>, NoInvite), packages,
              Options(FALSE, FALSE), file) :
        plugins \in PluginLists,
        packages \in {pk \in [PluginNames -> UNION {EarlierPackagesOf(p) : p \in PluginNames}] :
                        \A p \in PluginNames : pk[p] \in EarlierPackagesOf(p)},
        file \in {FileMissing, FileBlank, FileCorrupt,
                  JsonStringify(EarlierManifest(BASE_MANIFEST,
                      SequentialScan(EarlierTree \cup {File("commands", "main", <<"a">>)},
                                     "commands"),
                      SequentialScan(EarlierTree, "events"),
                      Config(<<>>, <<>>, NoInvite)))}}

EarlierInit ==
    /\ input \in EarlierScenarios
    /\ manifestFile = input.file
    /\ pc = "idle"
    /\ compiled = FALSE
    /\ oldManifest = BASE_MANIFEST
    /\ pluginsManifest = BASE_MANIFEST
    /\ pluginIdx = 1
    /\ scanIdx = 1
    /\ status = [f \in input.tree |-> "wait"]
    /\ entries = <<>>
    /\ scanned = NoScans
    /\ newManifest = BASE_MANIFEST
    /\ writes = 0
    /\ differences = NoDifferences
    /\ registered = 0
    /\ _manifest = NotLoaded("null")
    /\ lastReturned = NotLoaded("null")
    /\ loads = 0

\* the variables of buildAction and of the later scanDir, unused here
buildVars == <<compiled, oldManifest, scanIdx, status, entries, differences, registered>>

\* the file that fs.readFile(manifestPath) reads
ManifestAt(basePath) ==
    IF basePath = "" THEN manifestFile
    ELSE input.packages[basePath].file

\* the effect of one call of loadManifest on the module's global
Called(result) ==
    /\ _manifest' = result.global
    /\ lastReturned' = IF result.out = "return" THEN Loaded(result.manifest)
                       ELSE lastReturned
    /\ loads' = loads + 1

\* a user of the module calls loadManifest(), or loadManifest(name, path)
\* for an installed plugin
CallLoadManifest(name) ==
    /\ pc = "idle"
    /\ loads < MaxLoads
    /\ name # "" => input.packages[name].path # ""
    /\ Called(LoadManifest(name, name, ManifestAt(name)))
    /\ UNCHANGED <<input, manifestFile, pc, pluginsManifest, pluginIdx, scanned,
                   newManifest, writes>>
    /\ UNCHANGED buildVars

\* generateManifest is called: loadConfig, and readPluginManifest begins
EarlierGenerate ==
    /\ pc = "idle"
    /\ writes = 0
    /\ pluginIdx = 1
    /\ pc' = "plugins"
    /\ UNCHANGED <<input, manifestFile, pluginsManifest, pluginIdx, scanned,
                   newManifest, writes>>
    /\ UNCHANGED buildVars
    /\ UNCHANGED loaderVars

\* one turn of the loop of the earlier readPluginManifest; a throw of
\* loadManifest rejects generateManifest
EarlierReadPlugin ==
    /\ pc = "plugins"
    /\ pluginIdx <= Len(input.config.plugins)
    /\ LET pluginName == input.config.plugins[pluginIdx]
           packagePath == input.packages[pluginName].path
           result == LoadManifest(pluginName, packagePath, ManifestAt(packagePath))
       IN  /\ Called(result)
           /\ IF result.out = "return"
              THEN /\ pluginsManifest' = EarlierMergePlugin(pluginsManifest, result.manifest)
                   /\ pc' = "plugins"
              ELSE /\ pluginsManifest' = pluginsManifest
                   /\ pc' = "thrown"
    /\ pluginIdx' = pluginIdx + 1
    /\ UNCHANGED <<input, manifestFile, scanned, newManifest, writes>>
    /\ UNCHANGED buildVars

\* readPluginManifest returns; generateEntries of commands and of events
EarlierEntries ==
    /\ pc = "plugins"
    /\ pluginIdx > Len(input.config.plugins)
    /\ scanned' = [scanned EXCEPT
                      !.commands = SequentialScan(input.tree, "commands"),
                      !.events = SequentialScan(input.tree, "events")]
    /\ pc' = "write"
    /\ UNCHANGED <<input, manifestFile, pluginsManifest, pluginIdx, newManifest, writes>>
    /\ UNCHANGED buildVars
    /\ UNCHANGED loaderVars

\* newManifest is built and written; generateManifest returns
EarlierWrite ==
    /\ pc = "write"
    /\ newManifest' = EarlierManifest(pluginsManifest, scanned.commands, scanned.events,
                                      input.config)
    /\ manifestFile' = JsonStringify(newManifest')
    /\ writes' = writes + 1
    /\ pc' = "idle"
    /\ UNCHANGED <<input, pluginsManifest, pluginIdx, scanned>>
    /\ UNCHANGED buildVars
    /\ UNCHANGED loaderVars

EarlierNext ==
    \/ \E name \in {""} \cup PluginNames : CallLoadManifest(name)
    \/ EarlierGenerate
    \/ EarlierReadPlugin
    \/ EarlierEntries
    \/ EarlierWrite

EarlierSpec == EarlierInit /\ [][EarlierNext]_vars


(***************************************************************************)
(* Properties.                                                             *)
(***************************************************************************)
FilesOfType(t) == {f \in input.tree : f.type = t /\ IsScanned(f, input.mode)}

\* generateEntries(t) has returned
Scanned(t) ==
    \/ pc \in {"assemble", "write", "compare", "done"}
    \/ pc = "scan" /\ scanIdx > Index(ScanOrder, t)

\* generateManifest has built newManifest
Generated == pc \in {"write", "compare", "done"}

\* the manifests of the installed plugins among the first n of config.plugins
LoadedManifests(n) ==
    LET installed == {i \in 1..n : input.packages[input.config.plugins[i]].installed}
    IN  [i \in installed |-> input.packages[input.config.plugins[i]].manifest]

ListOf(o, k) == IF Has(o, k) THEN Get(o, k) ELSE <<>>

\* C1: for a fixed build directory, fixed plugin manifests and fixed config,
\* the manifest that generateManifest writes is the same under every order
\* in which the predicate calls of scanDir complete: it is the manifest of
\* the run in which they complete one after the other in the fixed order.
C1_Deterministic ==
    Generated =>
        newManifest = SequentialManifest(ScannedFiles(input.tree, input.mode),
                                         input.config, input.packages)

RECURSIVE HandlersUpTo(_, _)
\* the handlers of event e in the manifests of the first n plugins, in config order
HandlersUpTo(n, e) ==
    IF n = 0 THEN <<>>
    ELSE HandlersUpTo(n - 1, e)
            \o (IF n \in DOMAIN LoadedManifests(n)
                THEN ListOf(LoadedManifests(n)[n].events, e) ELSE <<>>)

EventNamesUpTo(n) ==
    UNION {ObjKeys(LoadedManifests(n)[i].events) : i \in DOMAIN LoadedManifests(n)}

\* C2: merged events accumulate.  While readPluginManifest runs, the list
\* of every event name is the handlers of the plugins read so far, in
\* config order; in the generated manifest it is the plugins' handlers
\* followed by the locally scanned ones, its length is the sum of both
\* lengths, and the event names are those of either side.
C2_EventsAccumulate ==
    /\ ObjKeys(pluginsManifest.events) = EventNamesUpTo(pluginIdx - 1)
    /\ \A e \in Keys :
          ListOf(pluginsManifest.events, e) = HandlersUpTo(pluginIdx - 1, e)
    /\ Generated =>
          /\ ObjKeys(newManifest.events)
                = ObjKeys(pluginsManifest.events) \cup ObjKeys(scanned.events)
          /\ \A e \in Keys :
                /\ ListOf(newManifest.events, e)
                      = ListOf(pluginsManifest.events, e) \o ListOf(scanned.events, e)
                /\ Len(ListOf(newManifest.events, e))
                      = Len(ListOf(pluginsManifest.events, e))
                            + Len(ListOf(scanned.events, e))

\* two plugins and the project each contribute a handler of one event
C2_Witness ==
    /\ pc = "done"
    /\ \E e \in Keys :
          /\ Len(ListOf(pluginsManifest.events, e)) = 2
          /\ Len(ListOf(scanned.events, e)) = 1
          /\ Len(ListOf(newManifest.events, e)) = 3


RECURSIVE NodeAt(_, _)
\* the node at o[k1].subs[k2]...: [found, node]
NodeAt(o, ks) ==
    IF ~Has(o, ks[1]) THEN [found |-> FALSE, node |-> Placeholder]
    ELSE IF Len(ks) = 1 THEN [found |-> TRUE, node |-> Get(o, ks[1])]
    ELSE NodeAt(Get(o, ks[1]).subs, Tail(ks))

\* a file next to a directory of its name that holds files
ParentChildConflict(F) ==
    \E f \in F, g \in F : Len(g.keys) < Len(f.keys) /\ IsPrefix(g.keys, f.keys)

\* no two files (of the main directory and the modules) have one key path
UniqueKeyPaths(F) == \A f \in F, g \in F : f.keys = g.keys => f = g

CommandsNested ==
    \A f \in FilesOfType("commands") :
        Len(f.keys) <= 3 =>
            NodeAt(scanned.commands, f.keys) = [found |-> TRUE, node |-> FileEntry(f)]

\* C3 as stated: for every command file tree without a parent/child file
\* conflict, the entry of every file of one, two or three names is in the
\* generated commands at entries[a], entries[a].subcommands[b],
\* entries[a].subcommands[b].subcommands[c].
C3_CommandsNest ==
    (Scanned("commands") /\ ~ParentChildConflict(FilesOfType("commands")))
        => CommandsNested

\* C3 amended: the same, for trees in which no two files share a key path.
C3_CommandsNestUnique ==
    (/\ Scanned("commands")
     /\ ~ParentChildConflict(FilesOfType("commands"))
     /\ UniqueKeyPaths(FilesOfType("commands")))
        => CommandsNested

\* two sibling files of three names and a module's file have been scanned
C3_Witness ==
    /\ Scanned("commands")
    /\ ~ParentChildConflict(FilesOfType("commands"))
    /\ UniqueKeyPaths(FilesOfType("commands"))
    /\ \E f \in FilesOfType("commands"), g \in FilesOfType("commands"),
          h \in FilesOfType("commands") :
          /\ f # g /\ Len(f.keys) = 3 /\ Dir(f.keys) = Dir(g.keys)
          /\ h.root # "main"

\* C4: generateEntries('api') never throws, and the entry of every route
\* file is in the generated api at entries[k0].subroutes[k1]...subroutes[kn]
\* (for trees in which no two files share a key path).
C4_ApiRoutesNest ==
    /\ pc # "thrown"
    /\ (Scanned("api") /\ UniqueKeyPaths(FilesOfType("api"))) =>
          \A f \in FilesOfType("api") :
              /\ NodeAt(scanned.api, f.keys).found
              /\ NodeAt(scanned.api, f.keys).node.path = f

EventFiles(E) == {f \in FilesOfType("events") : f.keys[1] = E}

\* C5: under every interleaving of the predicate calls, every completed
\* predicate of an event file with first key E has appended exactly one
\* handler, its own, to entries[E]; after the scan the length of entries[E]
\* is the number of scanned event files with first key E.
C5_EventsKeepEveryHandler ==
    /\ (pc = "scan" /\ ScanType = "events") =>
          \A E \in Keys :
              LET done == {f \in EventFiles(E) : status[f] = "done"}
                  list == ListOf(entries, E)
              IN  /\ Len(list) = Cardinality(done)
                  /\ \A f \in done : \E i \in 1..Len(list) : list[i] = FileEntry(f)
    /\ Scanned("events") =>
          \A E \in Keys :
              Len(ListOf(scanned.events, E)) = Cardinality(EventFiles(E))

\* an event with three handlers, from the main directory and from a module
C5_Witness ==
    /\ Scanned("events")
    /\ \E E \in Keys :
          /\ Len(ListOf(scanned.events, E)) = 3
          /\ \E f \in EventFiles(E), g \in EventFiles(E) :
                f.root = "main" /\ g.root # "main"
          /\ \E f \in EventFiles(E), g \in EventFiles(E) :
                f # g /\ Dir(f.keys) = Dir(g.keys) /\ Len(f.keys) > 1


\* context[type] of the generated manifest, which has the two context types only
ManifestContext(contextType) ==
    CASE contextType = "message" -> newManifest.context.message
      [] contextType = "user" -> newManifest.context.user
      [] OTHER -> <<>>

\* result is base overridden key by key by over
Overrides(result, base, over) ==
    /\ ObjKeys(result) = ObjKeys(base) \cup ObjKeys(over)
    /\ \A k \in ObjKeys(result) :
          Get(result, k) = IF Has(over, k) THEN Get(over, k) ELSE Get(base, k)

ContextRecordsMerged ==
    /\ Overrides(newManifest.context.message, pluginsManifest.context.message,
                 ListOf(scanned.context, "message"))
    /\ Overrides(newManifest.context.user, pluginsManifest.context.user,
                 ListOf(scanned.context, "user"))

\* C6 as stated: every context file of exactly two names, context/<type>/<name>,
\* is in the generated manifest at context[<type>][<name>] with its entry, and
\* context.message and context.user are the plugins' entries of that type
\* overridden key by key by the local ones.
C6_ContextGrouped ==
    Generated =>
        /\ \A f \in FilesOfType("context") :
              Len(f.keys) = 2 =>
                  /\ Has(ManifestContext(f.keys[1]), f.keys[2])
                  /\ Get(ManifestContext(f.keys[1]), f.keys[2]) = FileEntry(f)
        /\ ContextRecordsMerged

\* C6 amended: the same for the files under context/message and context/user;
\* where several scanned files share the key path, the entry at
\* context[<type>][<name>] is the entry of one of them.
C6_ContextGroupedByType ==
    Generated =>
        /\ \A f \in FilesOfType("context") :
              (Len(f.keys) = 2 /\ f.keys[1] \in ContextTypes) =>
                  /\ Has(ManifestContext(f.keys[1]), f.keys[2])
                  /\ \E g \in FilesOfType("context") :
                        /\ g.keys = f.keys
                        /\ Get(ManifestContext(f.keys[1]), f.keys[2]) = FileEntry(g)
        /\ ContextRecordsMerged

\* a local user entry overrides a plugin's, another entry of the plugins
\* stays, and a local message entry is in place
C6_Witness ==
    /\ Generated
    /\ \E k \in Keys, l \in Keys :
          /\ Has(pluginsManifest.context.user, k)
          /\ Has(ListOf(scanned.context, "user"), k)
          /\ Has(pluginsManifest.context.user, l)
          /\ ~Has(ListOf(scanned.context, "user"), l)
          /\ Get(newManifest.context.message, k)
                = FileEntry(File("context", "main", <<"message", k>>))

Sections == {"api", "commands", "message", "user"}

SectionOf(m, sec) ==
    CASE sec = "api" -> m.api
      [] sec = "commands" -> m.commands
      [] sec = "message" -> m.context.message
      [] sec = "user" -> m.context.user

LocalSection(sec) ==
    CASE sec = "api" -> scanned.api
      [] sec = "commands" -> scanned.commands
      [] sec = "message" -> ListOf(scanned.context, "message")
      [] sec = "user" -> ListOf(scanned.context, "user")

\* the indices of the installed plugins of config.plugins that define k in sec
Defining(sec, k) ==
    LET loaded == LoadedManifests(Len(input.config.plugins))
    IN  {i \in DOMAIN loaded : Has(SectionOf(loaded[i], sec), k)}

Last(S) == CHOOSE i \in S : \A j \in S : j <= i

\* C7: for api, commands, context.message and context.user, the keys of the
\* generated manifest are those of all plugin manifests and of the local
\* entries; the value of a key is the local entry if there is one, otherwise
\* the entry of the last plugin in config order that defines it.
C7_RightBiasedUnion ==
    Generated =>
        \A sec \in Sections :
            LET loaded == LoadedManifests(Len(input.config.plugins))
                final == SectionOf(newManifest, sec)
                local == LocalSection(sec)
            IN  /\ ObjKeys(final)
                      = ObjKeys(local)
                            \cup UNION {ObjKeys(SectionOf(loaded[i], sec)) : i \in DOMAIN loaded}
                /\ \A k \in ObjKeys(final) :
                      Get(final, k) =
                          IF Has(local, k) THEN Get(local, k)
                          ELSE Get(SectionOf(loaded[Last(Defining(sec, k))], sec), k)

\* two different plugins define a command the project lacks, and the project
\* defines a command that a plugin defines too
C7_Witness ==
    /\ Generated
    /\ \E k \in Keys, l \in Keys :
          /\ ~Has(scanned.commands, k)
          /\ \E i \in Defining("commands", k), j \in Defining("commands", k) :
                input.config.plugins[i] # input.config.plugins[j]
          /\ Has(scanned.commands, l)
          /\ Defining("commands", l) # {}

\* C8: every string permission and every scope of the manifest of an
\* installed plugin of config.plugins is among the permissions and scopes of
\* the manifest that generateManifest returns and writes.
C8_PluginPermissionsReachManifest ==
    Generated =>
        LET loaded == LoadedManifests(Len(input.config.plugins))
        IN  \A i \in DOMAIN loaded :
                /\ loaded[i].permissions.kind = "list" =>
                      Range(loaded[i].permissions.list)
                          \subseteq Range(newManifest.permissions.list)
                /\ Range(loaded[i].scopes) \subseteq Range(newManifest.scopes)


Differ == differences.added # {} \/ differences.removed # {} \/ differences.changed # {}

\* C9 as stated: buildAction calls registerCommands if and only if --force is
\* set or one of the three difference sets is non-empty.
C9_RegisterExactlyWhenNeeded ==
    pc \in {"done", "exited", "thrown"} =>
        (registered > 0 <=> (input.options.force \/ Differ))

\* C9 amended: a run of buildAction that reaches the comparison (it did not
\* exit on --watch, and generateManifest neither exited nor threw) calls
\* registerCommands once if --force is set or a difference set is non-empty,
\* and not at all otherwise, in particular when the old and the new commands
\* are identical and --force is absent; a run that does not reach the
\* comparison never calls it.
C9_RegisterWhenCompared ==
    /\ pc # "done" => registered = 0
    /\ pc = "done" =>
          /\ registered = IF input.options.force \/ Differ THEN 1 ELSE 0
          /\ differences.added = ObjKeys(newManifest.commands) \ ObjKeys(oldManifest.commands)
          /\ differences.removed = ObjKeys(oldManifest.commands) \ ObjKeys(newManifest.commands)
          /\ (oldManifest.commands = newManifest.commands /\ ~input.options.force)
                => registered = 0

\* without --force, a command of the old manifest is gone and nothing else
\* differs: registerCommands has been called
C9_Witness ==
    /\ pc = "done"
    /\ ~input.options.force
    /\ differences.removed # {}
    /\ differences.added = {}
    /\ differences.changed = {}
    /\ registered = 1

AllScanned == \A f \in ScannedFiles(input.tree, input.mode) : status[f] = "done"

\* C10: generateManifest writes .robo/manifest.json once, after the plugin
\* merge, the five scans and the permissions and scopes are done, with the
\* manifest it built; a run that exits or throws leaves the file as it was.
C10_OneWriteOnSuccess ==
    /\ [](/\ writes <= 1
          /\ writes = 0 => manifestFile = input.file
          /\ pc \in {"exited", "thrown"} => writes = 0
          /\ pc = "done" => writes = 1 /\ manifestFile = JsonStringify(newManifest))
    /\ [][(manifestFile' # manifestFile \/ writes' # writes) =>
            /\ pluginIdx > Len(input.config.plugins)
            /\ scanIdx = Len(ScanOrder)
            /\ AllScanned
            /\ newManifest = BuildManifest(pluginsManifest, scanned, input.config)
            /\ manifestFile' = JsonStringify(newManifest)
            /\ writes' = writes + 1]_vars

\* a build over an earlier manifest has written a different one
C10_Witness ==
    /\ pc = "done"
    /\ writes = 1
    /\ input.file.state = "json"
    /\ manifestFile # input.file
    /\ input.tree # {}

\* a build over an earlier manifest has exited on a command conflict
C10_ExitWitness ==
    /\ pc = "exited"
    /\ ~input.options.watch
    /\ input.file.state = "json"

\* a build over an earlier manifest has thrown in generateEntries('api')
C10_ThrowWitness ==
    /\ pc = "thrown"
    /\ input.file.state = "json"

(***************************************************************************)
(* Plugin options in the manifest.                                         *)
(***************************************************************************)
\* the option values held by what config.plugins holds for the plugins
OptionValues(pluginForms) ==
    UNION {{pluginForms[i].options.fields[j].v :
                j \in 1..Len(pluginForms[i].options.fields)} :
            i \in 1..Len(pluginForms)}

\* the two configs differ in plugin option values only
SameButOptionValues(c, d) ==
    /\ [c EXCEPT !.pluginForms = <<>>] = [d EXCEPT !.pluginForms = <<>>]
    /\ Len(c.pluginForms) = Len(d.pluginForms)
    /\ \A i \in 1..Len(c.pluginForms) :
          /\ c.pluginForms[i].form = d.pluginForms[i].form
          /\ c.pluginForms[i].options.kind = d.pluginForms[i].options.kind
          /\ Len(c.pluginForms[i].options.fields) = Len(d.pluginForms[i].options.fields)
          /\ \A j \in 1..Len(c.pluginForms[i].options.fields) :
                c.pluginForms[i].options.fields[j].k = d.pluginForms[i].options.fields[j].k

\* the configs of the model that differ from c in plugin option values only
OptionVariants(c) ==
    {[c EXCEPT !.pluginForms = forms] :
        forms \in {fs \in SeqsUpTo(PluginForms, MaxPlugins) :
                      Len(fs) = Len(c.pluginForms)}}

\* C11: no option value of a plugin of config.plugins is in the __robo.config
\* that generateManifest writes, and a config that differs in plugin option
\* values only gives the same __robo.config.
C11_OptionValuesRedacted ==
    Generated =>
        /\ newManifest.robo.hasConfig
        /\ OptionValues(newManifest.robo.config.pluginForms) \cap Secrets = {}
        /\ \A d \in OptionVariants(input.config) :
              SameButOptionValues(input.config, d)
                  => redactPluginOptions(d) = newManifest.robo.config

(***************************************************************************)
(* Module directories.                                                     *)
(***************************************************************************)
\* the entry of file f is in generateEntries' result at the place of its key
\* path, with f's module directory as __module
Placed(f) ==
    LET result == scanned[f.type]
        entry == FileEntry(f)
    IN  CASE f.type \in {"api", "commands"} ->
               /\ NodeAt(result, f.keys).found
               /\ NodeAt(result, f.keys).node.path = f
               /\ NodeAt(result, f.keys).node.module = entry.module
          [] f.type = "context" ->
               /\ Has(result, f.keys[1])
               /\ Has(Get(result, f.keys[1]), f.keys[2])
               /\ Get(Get(result, f.keys[1]), f.keys[2]) = entry
          [] f.type = "events" ->
               \E i \in 1..Len(ListOf(result, f.keys[1])) :
                   ListOf(result, f.keys[1])[i] = entry
          [] f.type = "middleware" ->
               \E i \in 1..Len(result) : result[i] = entry

getManifest == _manifest

\* C13: getManifest returns null before any call of loadManifest, and after
\* any calls it returns the manifest that the latest call of loadManifest
\* that returned has returned, for the project or for a plugin.
C13_GetManifestIsLastLoaded ==
    /\ loads = 0 => getManifest = NotLoaded("null")
    /\ getManifest = lastReturned

(***************************************************************************)
(* Parents and children across the main directory and the modules.         *)
(***************************************************************************)
\* C14: over the whole scan of an entry type, the main directory and all
\* modules, whenever the key path of one scanned file is a strict prefix of
\* the key path of another, the predicate call of the file with the shorter
\* path has completed before the call of the file with the longer one starts.
C14_ParentsBeforeChildren ==
    \A f \in ScannedFiles(input.tree, input.mode),
       g \in ScannedFiles(input.tree, input.mode) :
        (/\ g.type = f.type
         /\ Len(g.keys) < Len(f.keys)
         /\ IsPrefix(g.keys, f.keys)
         /\ status[f] # "wait")
            => status[g] = "done"

\* C15: whenever the scanned command files, of the main directory and the
\* modules together, hold a command file next to its subcommands ([a] with
\* [a,b] or [a,b,c], or [a,b] with [a,b,c]), generateEntries('commands')
\* never returns a command table.
C15_ConflictNeverReturns ==
    LET commandFiles == {f \in FilesOfType("commands") : Len(f.keys) <= 3}
    IN  ParentChildConflict(commandFiles) => ~Scanned("commands")

\* C16: a file of a module directory <name>.<mode> whose mode is not the
\* active one is never handed to the predicate and its entry is in no
\* generated section; the files of a module directory <name>.<mode> of the
\* active mode, and of a module directory without a '.' suffix, have all
\* been handed to the predicate when generateEntries returns.
C16_ModuleModeFilter ==
    \A f \in input.tree :
        f.root # "main" =>
            LET moduleParts == ModuleParts(f.root)
                suffixed == Len(moduleParts) > 1
                active == ModeIs(input.mode, moduleParts[Len(moduleParts)])
            IN  /\ (suffixed /\ ~active) => (status[f] = "wait" /\ ~Placed(f))
                /\ (suffixed /\ active /\ Scanned(f.type)) => status[f] = "done"
                /\ (~suffixed /\ Scanned(f.type)) => status[f] = "done"

\* in production mode the file of module m1 is in the generated entries and
\* the file of module m2.dev, of another key path, has been left out
C16_Witness ==
    /\ input.mode = "production"
    /\ \E f \in input.tree, g \in input.tree :
          /\ f.root = "m1" /\ g.root = "m2.dev"
          /\ g.type = f.type /\ g.keys # f.keys
          /\ Scanned(f.type)
          /\ Placed(f)
          /\ status[g] = "wait"

(***************************************************************************)
(* The order of the steps of buildAction.                                  *)
(***************************************************************************)
\* C17: in every run of buildAction, the manifest file is overwritten only
\* after loadManifest has read oldManifest from it; the comparison takes
\* that pre-build manifest and the manifest just generated and written;
\* registerCommands is called only after the write; and with --watch the
\* action exits before it compiles, loads, generates or registers anything.
C17_BuildStepOrder ==
    /\ [](/\ writes > 0 => (loads = 1 /\ oldManifest = loadManifest(input.file))
          /\ registered > 0 => writes = 1
          /\ input.options.watch =>
                /\ pc \in {"start", "exited"}
                /\ ~compiled /\ loads = 0 /\ writes = 0 /\ registered = 0
                /\ manifestFile = input.file)
    /\ [][/\ manifestFile' # manifestFile =>
                (loads = 1 /\ oldManifest = loadManifest(manifestFile))
          /\ (pc = "compare" /\ pc' = "done") =>
                /\ oldManifest = loadManifest(input.file)
                /\ writes = 1
                /\ manifestFile = JsonStringify(newManifest)
          /\ registered' # registered =>
                (writes = 1 /\ manifestFile = JsonStringify(newManifest))]_vars

\* a build over an earlier manifest with commands has written a manifest
\* with a new command and registered the commands
C17_Witness ==
    /\ pc = "done"
    /\ input.file.state = "json"
    /\ oldManifest.commands # <<>>
    /\ manifestFile # input.file
    /\ differences.added # {}
    /\ registered = 1

\* a build with --watch has exited
C17_WatchWitness ==
    /\ input.options.watch
    /\ pc = "exited"

(***************************************************************************)
(* Plugins that are not installed.                                         *)
(***************************************************************************)
\* C18: a turn of readPluginManifest's loop for a plugin whose package path
\* is not found changes nothing in the merged manifest, raises no error and
\* goes on to the next plugin; the scopes, the middleware and the command
\* keys of the merged manifest are those of the installed plugins read so
\* far, in config order.
C18_UninstalledPluginSkipped ==
    /\ [](LET n == pluginIdx - 1
              loaded == LoadedManifests(n)
              part(i, list) == IF i \in DOMAIN loaded THEN list ELSE <<>>
          IN  /\ (pluginIdx <= Len(input.config.plugins) /\ ~input.options.watch)
                    => pc \notin {"exited", "thrown"}
              /\ pluginsManifest.scopes
                    = Flatten([i \in 1..n |->
                          part(i, input.packages[input.config.plugins[i]].manifest.scopes)])
              /\ pluginsManifest.middleware
                    = Flatten([i \in 1..n |->
                          part(i, input.packages[input.config.plugins[i]].manifest.middleware)])
              /\ ObjKeys(pluginsManifest.commands)
                    = UNION {ObjKeys(loaded[i].commands) : i \in DOMAIN loaded})
    /\ [][(/\ pc = "plugins"
            /\ pluginIdx <= Len(input.config.plugins)
            /\ ~input.packages[input.config.plugins[pluginIdx]].installed)
              => /\ pluginsManifest' = pluginsManifest
                 /\ pc' = "plugins"
                 /\ pluginIdx' = pluginIdx + 1]_vars

\* the first plugin of config.plugins is not installed, the second is, and
\* its commands and scopes are in the merged manifest
C18_Witness ==
    /\ Len(input.config.plugins) = 2
    /\ pluginIdx = 3
    /\ ~input.packages[input.config.plugins[1]].installed
    /\ input.packages[input.config.plugins[2]].installed
    /\ pluginsManifest.commands # <<>>
    /\ pluginsManifest.scopes # <<>>

(***************************************************************************)
(* The earlier readPluginManifest.                                         *)
(***************************************************************************)
\* the plugins among the first n of config.plugins whose package was found
FoundUpTo(n) == {i \in 1..n : input.packages[input.config.plugins[i]].path # ""}

\* what loadManifest returns for the i-th plugin of config.plugins when its
\* package was found
FoundManifest(i) ==
    LET pluginName == input.config.plugins[i]
        package == input.packages[pluginName]
    IN  LoadManifest(pluginName, package.path, package.file).manifest

\* C19: in the earlier manifest module, the commands and the events of the
\* merged plugins manifest come from the manifests of the plugins whose
\* package was found, and the commands of the generated manifest from those
\* and from the command files of the project: a plugin whose package is not
\* found contributes nothing, and a command of the project's previous
\* manifest whose file is gone is not in the next manifest.
C19_MissingPluginAddsNothing ==
    LET found == FoundUpTo(pluginIdx - 1)
    IN  /\ ObjKeys(pluginsManifest.commands)
              \subseteq UNION {ObjKeys(FoundManifest(i).commands) : i \in found}
        /\ ObjKeys(pluginsManifest.events)
              \subseteq UNION {ObjKeys(FoundManifest(i).events) : i \in found}
        /\ writes > 0 =>
              ObjKeys(newManifest.commands)
                  \subseteq {f.keys[1] : f \in {g \in input.tree : g.type = "commands"}}
                      \cup UNION {ObjKeys(FoundManifest(i).commands) : i \in found}

RECURSIVE EarlierHandlersUpTo(_, _)
\* the handlers of event e that loadManifest returns for the first n plugins
\* of config.plugins whose package was found, in config order
EarlierHandlersUpTo(n, e) ==
    IF n = 0 THEN <<>>
    ELSE EarlierHandlersUpTo(n - 1, e)
            \o (IF n \in FoundUpTo(n) THEN ListOf(FoundManifest(n).events, e) ELSE <<>>)

\* C20: in the earlier readPluginManifest, when config.plugins lists
\* different plugins and the package of each is found, the handler list of
\* every event in the merged plugins manifest is the concatenation, in
\* config order, of the handlers of the plugins read so far.
C20_PluginEventsAccumulate ==
    (/\ FoundUpTo(Len(input.config.plugins)) = 1..Len(input.config.plugins)
     /\ \A i, j \in 1..Len(input.config.plugins) :
           input.config.plugins[i] = input.config.plugins[j] => i = j
     /\ pc # "thrown")
        => \A e \in Keys :
              ListOf(pluginsManifest.events, e) = EarlierHandlersUpTo(pluginIdx - 1, e)

====
